---- MODULE Spec2Model ----
(***************************************************************************)
(* A model of elgato-light-cli (src/src/main.rs): the command line is      *)
(* parsed into an ElgatoLight value, the address is validated, a KeyLight  *)
(* is obtained and ElgatoLight::run issues the command's device calls.     *)
(* Every `.await?` on the KeyLight is two steps: the call is issued, then  *)
(* the device replies or the call fails. Another actor may change the      *)
(* light between the steps.                                                *)
(***************************************************************************)
EXTENDS Integers, Sequences, FiniteSets, TLC

VARIABLES
    argv,             \* the command line given to the process
    overflow_checks,  \* the build: TRUE traps on integer overflow, FALSE wraps
    dev,              \* the light itself: [on, brightness, temperature]
    dev0,             \* the light as it was when the process started
    pc,               \* the position of main / run
    args,             \* ElgatoLight::from_args(), once parsed
    inflight,         \* the device call awaited, or NoCall
    calls,            \* every contact with the device, in the order issued
    ensure_status,    \* ensure_light_on's status.lights[0]
    status,           \* run's status.lights[0] (Brightness and Status arms)
    new_brightness,   \* run's new_brightness (Brightness arm)
    result,           \* how the process ended
    externals         \* changes made by other actors so far

vars == <<argv, overflow_checks, dev, dev0, pc, args, inflight, calls, ensure_status,
          status, new_brightness, result, externals>>

----------------------------------------------------------------------------
(* Bounds of the model *)

\* Changes another actor (a second client, the button) makes in one run.
MaxExternal == 1

----------------------------------------------------------------------------
(* Integer types *)

I8Min == -128
I8Max == 127
U8Max == 255

\* The clamp bounds of the Brightness arm.
ClampLo == 0
ClampHi == 100

\* `x as i8` for a u8 x.
AsI8(x) == IF x > I8Max THEN x - (U8Max + 1) ELSE x

\* An i8 result of an addition in a build without overflow checks.
WrapI8(x) == ((x - I8Min) % (U8Max + 1)) + I8Min

\* Ord::clamp
Clamp(x, lo, hi) == IF x < lo THEN lo ELSE IF x > hi THEN hi ELSE x

----------------------------------------------------------------------------
(* Strings are sequences of characters. *)

DigitChars == {"0", "1", "2", "3", "4", "5", "6", "7", "8", "9"}

DigitVal(ch) ==
    CASE ch = "0" -> 0 [] ch = "1" -> 1 [] ch = "2" -> 2 [] ch = "3" -> 3
      [] ch = "4" -> 4 [] ch = "5" -> 5 [] ch = "6" -> 6 [] ch = "7" -> 7
      [] ch = "8" -> 8 [] ch = "9" -> 9

AllDigits(s) == \A k \in 1..Len(s) : s[k] \in DigitChars

RECURSIVE Decimal(_, _)
Decimal(s, acc) ==
    IF s = <<>> THEN acc ELSE Decimal(Tail(s), 10 * acc + DigitVal(Head(s)))

Ok(v) == [ok |-> TRUE, val |-> v]
Err == [ok |-> FALSE, val |-> 0]

\* <integer type>::from_str before the range check: an optional sign (a "-"
\* only for a signed type), then one or more digits.
ParseInt(s, signed) ==
    LET neg == s # <<>> /\ Head(s) = "-" /\ signed
        pos == s # <<>> /\ Head(s) = "+"
        digits == IF neg \/ pos THEN Tail(s) ELSE s
    IN  IF digits = <<>> \/ ~AllDigits(digits) THEN Err
        ELSE IF neg THEN Ok(0 - Decimal(digits, 0))
        ELSE Ok(Decimal(digits, 0))

\* The value must fit the type.
InRange(r, lo, hi) == IF r.ok /\ r.val >= lo /\ r.val <= hi THEN r ELSE Err

\* i8::from_str (the Brightness delta), u8::from_str (On's brightness).
ParseI8(s) == InRange(ParseInt(s, TRUE), I8Min, I8Max)
ParseU8(s) == InRange(ParseInt(s, FALSE), 0, U8Max)

\* u32::from_str (a temperature). The tokens of the model have at most four
\* digits, so u32::MAX is never exceeded and is not checked.
ParseU32(s) == ParseInt(s, FALSE)

----------------------------------------------------------------------------
(* The command line *)

\* DEFAULT_IP_ADDRESS, "192.168.0.25"
DEFAULT_IP_ADDRESS == <<"1", "9", "2", ".", "1", "6", "8", ".", "0", ".", "2", "5">>

\* The addresses tried: the default, "999.1.1.1" and "10.0.0".
Address999 == <<"9", "9", "9", ".", "1", ".", "1", ".", "1">>
AddressShort == <<"1", "0", ".", "0", ".", "0">>
Addresses == { DEFAULT_IP_ADDRESS, Address999, AddressShort }

\* The "--" token, after which every token is a value.
DashDash == <<"-", "-">>

\* Tokens tried as the Brightness delta.
MinusFifty == <<"-", "5", "0">>
DeltaTokens ==
    { <<"5", "0">>, MinusFifty, <<"1", "0">>, <<"-", "1", "0">>,
      <<"1", "0", "0">>, <<"-", "1", "0", "0">>, <<"1", "2", "0">>,
      <<"1", "2", "8">>, <<"-", "1", "2", "8">>, <<"-", "1", "2", "9">>,
      <<"x">> }

\* Tokens tried as the value of On's --brightness; "10" is its default_value.
DefaultBrightness == <<"1", "0">>
BrightnessTokens ==
    { DefaultBrightness, <<"0">>, <<"1", "0", "0">>, <<"2", "0", "0">>,
      <<"2", "5", "5">>, <<"2", "5", "6">>, <<"-", "5">> }

\* Tokens tried as a temperature; "3000" is the default_value of On's.
DefaultTemperature == <<"3", "0", "0", "0">>
TemperatureTokens == { DefaultTemperature, <<"5", "0", "0", "0">> }

\* A command line: the subcommand, the tokens given after it other than the
\* options, and the value of each option (its default_value when not given).
CommandLine(cmd, positional, b, t, ip) ==
    [cmd |-> cmd, positional |-> positional, brightness |-> b,
     temperature |-> t, ip_address |-> ip]

\* The command lines tried against the light at `ip`.
CommandLinesTo(ip) ==
    { CommandLine("on", <<>>, b, t, ip) :
        b \in BrightnessTokens, t \in TemperatureTokens }
    \cup { CommandLine("off", <<>>, DefaultBrightness, DefaultTemperature, ip),
           CommandLine("status", <<>>, DefaultBrightness, DefaultTemperature, ip),
           CommandLine("brightness", <<>>, DefaultBrightness, DefaultTemperature, ip) }
    \cup { CommandLine("brightness", <<d>>, DefaultBrightness, DefaultTemperature, ip) :
             d \in DeltaTokens }
    \cup { CommandLine("brightness", <<DashDash, d>>, DefaultBrightness,
                       DefaultTemperature, ip) : d \in DeltaTokens }
    \cup { CommandLine("temperature", <<t>>, DefaultBrightness, DefaultTemperature, ip) :
             t \in TemperatureTokens }

CommandLines == UNION { CommandLinesTo(ip) : ip \in Addresses }

----------------------------------------------------------------------------
(* ElgatoLight::from_args: the parser structopt derives for the enum. No   *)
(* variant sets allow_hyphen_values or AllowNegativeNumbers.               *)

\* Faulty variant: As if the argument allowed values that begin with a hyphen.
StartsNewArg_AllowHyphen(tok) == FALSE

\* A token that begins with "-" and is longer than "-" starts a new argument.
StartsNewArg(tok) == Len(tok) > 1 /\ tok[1] = "-"

\* The value of the one required positional argument, <<>> when the tokens
\* give none: nothing was given, or the token was read as a flag (none of the
\* tokens tried names a flag the subcommand has). After "--" the token is a
\* value whatever it begins with.
PositionalValue(positional) ==
    IF positional = <<>> THEN <<>>
    ELSE IF Head(positional) = DashDash
         THEN IF Len(positional) = 2 THEN <<positional[2]>> ELSE <<>>
    ELSE IF StartsNewArg(Head(positional)) THEN <<>>
    ELSE IF Len(positional) = 1 THEN <<positional[1]>>
    ELSE <<>>

\* The value of an option: the token after it, unless that starts a new argument.
OptionValue(tok) == IF StartsNewArg(tok) THEN <<>> ELSE <<tok>>

Intent(cmd, brightness, temperature) ==
    [cmd |-> cmd, brightness |-> brightness, temperature |-> temperature]

NoArgs == Intent("none", 0, 0)

FromArgsOn(line) ==
    LET b == OptionValue(line.brightness)
        t == OptionValue(line.temperature)
    IN  IF b = <<>> \/ t = <<>> THEN Err
        ELSE IF ~ParseU8(b[1]).ok \/ ~ParseU32(t[1]).ok THEN Err
        ELSE Ok(Intent("On", ParseU8(b[1]).val, ParseU32(t[1]).val))

FromArgsBrightness(line) ==
    LET v == PositionalValue(line.positional)
    IN  IF v = <<>> THEN Err
        ELSE IF ~ParseI8(v[1]).ok THEN Err
        ELSE Ok(Intent("Brightness", ParseI8(v[1]).val, 0))

FromArgsTemperature(line) ==
    LET v == PositionalValue(line.positional)
    IN  IF v = <<>> THEN Err
        ELSE IF ~ParseU32(v[1]).ok THEN Err
        ELSE Ok(Intent("Temperature", 0, ParseU32(v[1]).val))

FromArgs(line) ==
    CASE line.cmd = "on" -> FromArgsOn(line)
      [] line.cmd = "off" -> Ok(Intent("Off", 0, 0))
      [] line.cmd = "brightness" -> FromArgsBrightness(line)
      [] line.cmd = "temperature" -> FromArgsTemperature(line)
      [] line.cmd = "status" -> Ok(Intent("Status", 0, 0))

----------------------------------------------------------------------------
(* ElgatoLight::ip_address: Ipv4Addr::from_str *)

RECURSIVE SplitDots(_, _, _)
SplitDots(s, cur, acc) ==
    IF s = <<>> THEN Append(acc, cur)
    ELSE IF Head(s) = "." THEN SplitDots(Tail(s), <<>>, Append(acc, cur))
    ELSE SplitDots(Tail(s), Append(cur, Head(s)), acc)

\* Faulty variant: An octet is not checked against 255.
OctetOk_NoMax(part) ==
    /\ Len(part) >= 1
    /\ Len(part) <= 3
    /\ AllDigits(part)
    /\ (Len(part) > 1 => part[1] # "0")

\* One to three digits, no leading zero, at most 255.
OctetOk(part) ==
    /\ Len(part) >= 1
    /\ Len(part) <= 3
    /\ AllDigits(part)
    /\ (Len(part) > 1 => part[1] # "0")
    /\ Decimal(part, 0) <= U8Max

\* Four octets separated by dots.
Ipv4AddrFromStr(s) ==
    LET parts == SplitDots(s, <<>>, <<>>)
    IN  IF Len(parts) = 4 /\ \A k \in 1..Len(parts) : OctetOk(parts[k])
        THEN Ok([k \in 1..4 |-> Decimal(parts[k], 0)])
        ELSE Err

----------------------------------------------------------------------------
(* The light and the calls on the KeyLight *)

\* Brightness and temperature values the light starts with or is given by
\* another actor.
DevBrightness == {0, 20, 27, 28, 90, 100}
DevTemperature == {3000, 4000}

Light(on, brightness, temperature) ==
    [on |-> on, brightness |-> brightness, temperature |-> temperature]

Call(op, arg) == [op |-> op, arg |-> arg]
NoCall == Call("none", 0)
NoStatus == Light(-1, -1, -1)

\* What a call that succeeds leaves on the light. The light keeps its
\* brightness within 0..100.
Apply(d, call) ==
    CASE call.op = "set_power" -> [d EXCEPT !.on = call.arg]
      [] call.op = "set_brightness" ->
            [d EXCEPT !.brightness = Clamp(call.arg, ClampLo, ClampHi)]
      [] call.op = "set_temperature" -> [d EXCEPT !.temperature = call.arg]
      [] OTHER -> d

\* bool as the light reports it (lights[0].on).
BoolToOn(b) == IF b THEN 1 ELSE 0

----------------------------------------------------------------------------
(* Positions of main and run *)

Terminal == {"done", "failed", "panicked"}

\* Faulty variant: the Status arm first makes sure the light is on.
RunEntry_StatusEnsures(cmd) ==
    CASE cmd = "On" -> "on_power"
      [] cmd = "Off" -> "off_power"
      [] cmd = "Brightness" -> "ensure_get"
      [] cmd = "Temperature" -> "ensure_get"
      [] cmd = "Status" -> "ensure_get"

\* The first statement of each arm of run.
RunEntry(cmd) ==
    CASE cmd = "On" -> "on_power"
      [] cmd = "Off" -> "off_power"
      [] cmd = "Brightness" -> "ensure_get"
      [] cmd = "Temperature" -> "ensure_get"
      [] cmd = "Status" -> "status_get"

\* Faulty variant: The Brightness arm uses no second get.
AfterEnsure_SkipRead(cmd) == IF cmd = "Brightness" THEN "br_compute" ELSE "temp_set"

\* The statement after ensure_light_on(..).await? in the arm of `cmd`.
AfterEnsure(cmd) == IF cmd = "Brightness" THEN "br_get" ELSE "temp_set"

\* Faulty variant: ensure_light_on switches the light on without looking at status.
EnsureLightOnNext_Always(st, cmd) == "ensure_power"

\* Faulty variant: ensure_light_on reads the status and never switches the light on.
EnsureLightOnNext_Never(st, cmd) == AfterEnsure(cmd)

\* ensure_light_on after its get: set_power(true) only for a light that is off.
EnsureLightOnNext(st, cmd) ==
    IF st.on = 0 THEN "ensure_power" ELSE AfterEnsure(cmd)

\* Faulty variant: The On arm sets the temperature before the brightness.
OnNext_Swapped(site) ==
    CASE site = "on_power" -> "on_temperature"
      [] site = "on_temperature" -> "on_brightness"
      [] site = "on_brightness" -> "done"

\* The On arm: set_power, then set_brightness, then set_temperature.
OnNext(site) ==
    CASE site = "on_power" -> "on_brightness"
      [] site = "on_brightness" -> "on_temperature"
      [] site = "on_temperature" -> "done"

\* Where the code goes on when the call awaited at `site` returned Ok;
\* `st` is the status ensure_light_on has read.
Resume(site, st, cmd) ==
    CASE site = "get_keylight" -> RunEntry(cmd)
      [] site \in {"on_power", "on_brightness", "on_temperature"} -> OnNext(site)
      [] site = "off_power" -> "done"
      [] site = "ensure_get" -> EnsureLightOnNext(st, cmd)
      [] site = "ensure_power" -> AfterEnsure(cmd)
      [] site = "br_get" -> "br_compute"
      [] site = "br_set" -> "done"
      [] site = "temp_set" -> "done"
      [] site = "status_get" -> "done"

\* Faulty variant: The result of On's set_brightness is dropped instead of returned.
Propagate_IgnoreBrightness(site) ==
    IF site = "on_brightness" THEN "on_temperature" ELSE "failed"

\* Where the code goes on when the call awaited at `site` returned Err: `?`
\* returns the error from run, and from main.
Propagate(site) == "failed"

\* (current_brightness as i8) + *brightness leaves i8.
AddOverflows(c, d) == AsI8(c) + d < I8Min \/ AsI8(c) + d > I8Max

\* ((current_brightness as i8) + *brightness).clamp(0, 100) as u8, in a build
\* where the addition wraps.
NewBrightness(c, d) == Clamp(WrapI8(AsI8(c) + d), ClampLo, ClampHi)

----------------------------------------------------------------------------
(* Initial states *)

Init ==
    /\ argv \in CommandLines
    /\ overflow_checks \in BOOLEAN
    /\ dev \in { Light(on, b, t) : on \in {0, 1}, b \in DevBrightness, t \in DevTemperature }
    /\ dev0 = dev
    /\ pc = "from_args"
    /\ args = NoArgs
    /\ inflight = NoCall
    /\ calls = <<>>
    /\ ensure_status = NoStatus
    /\ status = NoStatus
    /\ new_brightness = 0
    /\ result = "none"
    /\ externals = 0

----------------------------------------------------------------------------
(* main *)

\* let args = ElgatoLight::from_args(); a usage error ends the process.
MainFromArgs ==
    /\ pc = "from_args"
    /\ IF FromArgs(argv).ok
       THEN /\ args' = FromArgs(argv).val
            /\ pc' = "ip_address"
            /\ result' = result
       ELSE /\ args' = args
            /\ pc' = "failed"
            /\ result' = "usage error"
    /\ UNCHANGED <<argv, dev0, overflow_checks, dev, inflight, calls, ensure_status, status,
                   new_brightness, externals>>

\* let ip_address = args.ip_address()?;
MainIpAddress ==
    /\ pc = "ip_address"
    /\ IF Ipv4AddrFromStr(argv.ip_address).ok
       THEN /\ pc' = "get_keylight"
            /\ result' = result
       ELSE /\ pc' = "failed"
            /\ result' = "Invalid IP address format"
    /\ UNCHANGED <<argv, dev0, overflow_checks, dev, args, inflight, calls, ensure_status, status,
                   new_brightness, externals>>

\* Faulty variant: a call is issued without the previous one being awaited.
Issue_NoAwait(call) ==
    /\ inflight' = call
    /\ calls' = Append(calls, call)
    /\ UNCHANGED <<argv, dev0, overflow_checks, dev, pc, args, ensure_status, status,
                   new_brightness, result, externals>>

\* A call on the device is issued and awaited.
Issue(call) ==
    /\ inflight = NoCall
    /\ inflight' = call
    /\ calls' = Append(calls, call)
    /\ UNCHANGED <<argv, dev0, overflow_checks, dev, pc, args, ensure_status, status,
                   new_brightness, result, externals>>

\* let keylight = ElgatoLight::get_keylight(ip_address).await?;
GetKeylight ==
    /\ pc = "get_keylight"
    /\ Issue(Call("new_from_ip", 0))

----------------------------------------------------------------------------
(* run *)

OnSetPower ==
    /\ pc = "on_power"
    /\ Issue(Call("set_power", BoolToOn(TRUE)))
OnSetBrightness ==
    /\ pc = "on_brightness"
    /\ Issue(Call("set_brightness", args.brightness))
OnSetTemperature ==
    /\ pc = "on_temperature"
    /\ Issue(Call("set_temperature", args.temperature))

\* Faulty variant: the Off arm passes true.
OffSetPower_PowersOn ==
    /\ pc = "off_power"
    /\ Issue(Call("set_power", BoolToOn(TRUE)))

OffSetPower ==
    /\ pc = "off_power"
    /\ Issue(Call("set_power", BoolToOn(FALSE)))

\* ensure_light_on: let status = keylight.get().await?;
EnsureGet ==
    /\ pc = "ensure_get"
    /\ Issue(Call("get", 0))
\* ensure_light_on: keylight.set_power(true).await?;
EnsureSetPower ==
    /\ pc = "ensure_power"
    /\ Issue(Call("set_power", BoolToOn(TRUE)))

\* Brightness arm: let status = keylight.get().await?;
BrightnessGet ==
    /\ pc = "br_get"
    /\ Issue(Call("get", 0))

\* Faulty variant: current_brightness is taken from the status ensure_light_on
\* has read.
BrightnessCompute_UsesEnsure ==
    /\ pc = "br_compute"
    /\ IF AddOverflows(ensure_status.brightness, args.brightness) /\ overflow_checks
       THEN /\ pc' = "panicked"
            /\ result' = "attempt to add with overflow"
            /\ new_brightness' = new_brightness
       ELSE /\ pc' = "br_set"
            /\ result' = result
            /\ new_brightness' = NewBrightness(ensure_status.brightness, args.brightness)
    /\ UNCHANGED <<argv, dev0, overflow_checks, dev, args, inflight, calls, ensure_status,
                   status, externals>>

\* Brightness arm: current_brightness and new_brightness. The addition is an
\* i8 addition: where it overflows, a build with overflow checks panics and
\* one without wraps.
BrightnessCompute ==
    /\ pc = "br_compute"
    /\ IF AddOverflows(status.brightness, args.brightness) /\ overflow_checks
       THEN /\ pc' = "panicked"
            /\ result' = "attempt to add with overflow"
            /\ new_brightness' = new_brightness
       ELSE /\ pc' = "br_set"
            /\ result' = result
            /\ new_brightness' = NewBrightness(status.brightness, args.brightness)
    /\ UNCHANGED <<argv, dev0, overflow_checks, dev, args, inflight, calls, ensure_status, status,
                   externals>>

\* Faulty variant: the value written is computed from the light's brightness at
\* the moment of the write, as if read and write were one atomic step.
BrightnessSet_Atomic ==
    /\ pc = "br_set"
    /\ Issue(Call("set_brightness", NewBrightness(dev.brightness, args.brightness)))

BrightnessSet ==
    /\ pc = "br_set"
    /\ Issue(Call("set_brightness", new_brightness))

\* Faulty variant: the Temperature arm calls the brightness setter.
TemperatureSet_WrongSetter ==
    /\ pc = "temp_set"
    /\ Issue(Call("set_brightness", args.temperature))

TemperatureSet ==
    /\ pc = "temp_set"
    /\ Issue(Call("set_temperature", args.temperature))

StatusGet ==
    /\ pc = "status_get"
    /\ Issue(Call("get", 0))

----------------------------------------------------------------------------
(* The device's answers *)

\* The awaited call returns Ok: a write has taken effect, a get returns the
\* light's state, and the code goes on.
DeviceReply ==
    /\ inflight # NoCall
    /\ dev' = Apply(dev, inflight)
    /\ ensure_status' = IF pc = "ensure_get" THEN dev ELSE ensure_status
    /\ status' = IF pc \in {"br_get", "status_get"} THEN dev ELSE status
    /\ pc' = Resume(pc, ensure_status', args.cmd)
    /\ result' = IF pc' = "done" THEN "Ok" ELSE result
    /\ inflight' = NoCall
    /\ UNCHANGED <<argv, dev0, overflow_checks, args, calls, new_brightness, externals>>

\* The awaited call returns Err.
DeviceError ==
    /\ inflight # NoCall
    /\ pc' = Propagate(pc)
    /\ result' = "device error"
    /\ inflight' = NoCall
    /\ UNCHANGED <<argv, dev0, overflow_checks, dev, args, calls, ensure_status, status,
                   new_brightness, externals>>

----------------------------------------------------------------------------
(* Other actors *)

InSession == calls # <<>> /\ pc \notin Terminal /\ externals < MaxExternal

\* Another client or the button switches the light.
ExternalPower ==
    /\ InSession
    /\ dev' = [dev EXCEPT !.on = 1 - dev.on]
    /\ externals' = externals + 1
    /\ UNCHANGED <<argv, dev0, overflow_checks, pc, args, inflight, calls, ensure_status, status,
                   new_brightness, result>>

\* Another client changes the brightness.
ExternalBrightness ==
    /\ InSession
    /\ \E b \in DevBrightness \ {dev.brightness} :
          dev' = [dev EXCEPT !.brightness = b]
    /\ externals' = externals + 1
    /\ UNCHANGED <<argv, dev0, overflow_checks, pc, args, inflight, calls, ensure_status, status,
                   new_brightness, result>>

----------------------------------------------------------------------------

Next ==
    \/ MainFromArgs
    \/ MainIpAddress
    \/ GetKeylight
    \/ OnSetPower
    \/ OnSetBrightness
    \/ OnSetTemperature
    \/ OffSetPower
    \/ EnsureGet
    \/ EnsureSetPower
    \/ BrightnessGet
    \/ BrightnessCompute
    \/ BrightnessSet
    \/ TemperatureSet
    \/ StatusGet
    \/ DeviceReply
    \/ DeviceError
    \/ ExternalPower
    \/ ExternalBrightness

Spec == Init /\ [][Next]_vars

----------------------------------------------------------------------------
(* Reading the record of calls *)

\* The calls run has issued on the KeyLight: all but get_keylight's.
RunCalls == IF calls = <<>> THEN <<>> ELSE Tail(calls)

Ops(cs) == [k \in 1..Len(cs) |-> cs[k].op]

IsWrite(call) == call.op \in {"set_power", "set_brightness", "set_temperature"}

\* How many times `call` was issued.
Issued(call) == Cardinality({k \in 1..Len(calls) : calls[k] = call})

IsPrefix(a, b) == Len(a) <= Len(b) /\ a = SubSeq(b, 1, Len(a))

\* The deltas and brightness levels the help texts name.
DeltaLo == -100
DeltaHi == 100

----------------------------------------------------------------------------
(* C1: for a brightness c in 0..100 read from the light and a delta d in    *)
(* -100..100, the value the Brightness arm passes to set_brightness is     *)
(* clamp(c + d, 0, 100): 0 below 0, 100 above 100, c + d otherwise.        *)
C1_PassesClampedSum ==
    ( /\ args.cmd = "Brightness"
      /\ inflight.op = "set_brightness"
      /\ status.brightness \in 0..100
      /\ args.brightness \in DeltaLo..DeltaHi )
    => inflight.arg = Clamp(status.brightness + args.brightness, 0, 100)

(* C2: every value handed to set_brightness, by On or by the Brightness    *)
(* arm, lies in 0..100.                                                    *)
C2_SetBrightnessInRange ==
    \A k \in 1..Len(calls) :
        calls[k].op = "set_brightness" => calls[k].arg \in 0..100

(* C3: for c in 0..100 and d in -100..100 the sum c + d never leaves the   *)
(* integer type it is computed in, the invocation does not abort because   *)
(* of the arithmetic, and a sum above 100 gives new_brightness = 100.      *)
C3_SumNeverOverflows ==
    ( /\ args.cmd = "Brightness"
      /\ args.brightness \in DeltaLo..DeltaHi
      /\ status.brightness \in 0..100 )
    => /\ pc # "panicked"
       /\ pc = "br_compute" => ~AddOverflows(status.brightness, args.brightness)
       /\ (pc = "br_set" /\ status.brightness + args.brightness > 100)
             => new_brightness = 100

(* C4: in the Brightness and Temperature arms, when the precondition read  *)
(* reports the light off, a get is issued before any write and             *)
(* set_power(true) is issued exactly once; when it reports the light on,   *)
(* no set_power is issued at all.                                          *)
C4_EnsurePowersOnOnce ==
    args.cmd \in {"Brightness", "Temperature"} =>
      /\ ensure_status.on = 0 =>
           /\ \A k \in 1..Len(RunCalls) :
                 IsWrite(RunCalls[k]) => \E j \in 1..(k - 1) : RunCalls[j].op = "get"
           /\ Issued(Call("set_power", 0)) = 0
           /\ IF pc = "ensure_power" /\ inflight = NoCall
              THEN Issued(Call("set_power", 1)) = 0
              ELSE Issued(Call("set_power", 1)) = 1
      /\ ensure_status.on = 1 =>
           \A k \in 1..Len(calls) : calls[k].op # "set_power"

C4_Witness ==
    /\ args.cmd = "Temperature"
    /\ ensure_status.on = 0
    /\ pc = "done"
    /\ Issued(Call("set_power", 1)) = 1

(* C5 as stated: with the light already on and every call succeeding, the *)
(* Brightness arm's calls are one get, then one set_brightness.            *)
C5_OneReadThenSet ==
    (args.cmd = "Brightness" /\ ensure_status.on = 1 /\ pc = "done")
    => Ops(RunCalls) = <<"get", "set_brightness">>

(* C5 as amended: with the light already on at the precondition read, the  *)
(* Brightness arm issues two gets (ensure_light_on's, then the one that    *)
(* reads the current brightness), then at most one set_brightness, and no  *)
(* set_power; a run that completes issued get, get, set_brightness, and a  *)
(* run that panics on the addition issued get, get.                        *)
C5_TwoReadsThenSet ==
    (args.cmd = "Brightness" /\ ensure_status.on = 1) =>
      /\ IsPrefix(Ops(RunCalls), <<"get", "get", "set_brightness">>)
      /\ pc = "done" => Ops(RunCalls) = <<"get", "get", "set_brightness">>
      /\ pc = "panicked" => Ops(RunCalls) = <<"get", "get">>

C5_Witness ==
    /\ args.cmd = "Brightness"
    /\ ensure_status.on = 1
    /\ pc = "done"
    /\ Len(RunCalls) = 3

(* C6: On issues set_power(true), set_brightness(b), set_temperature(t) in *)
(* that order and nothing else, no get among them, whatever the light's    *)
(* state; when every call succeeds it has issued all three.                *)
OnSequence ==
    << Call("set_power", 1), Call("set_brightness", args.brightness),
       Call("set_temperature", args.temperature) >>

C6_OnThreeWritesInOrder ==
    args.cmd = "On" =>
      /\ IsPrefix(RunCalls, OnSequence)
      /\ pc = "done" => RunCalls = OnSequence

C6_Witness ==
    /\ args.cmd = "On"
    /\ pc = "done"
    /\ Ops(RunCalls) = <<"set_power", "set_brightness", "set_temperature">>

(* C7: a step in which a device call fails ends the invocation in failure, *)
(* and a failed invocation stays failed and issues no further call, so no  *)
(* later call of the sequence and no compensating write follows.           *)
C7_FailureStopsTheSequence ==
    [][ /\ (result # "device error" /\ result' = "device error")
            => (pc' = "failed" /\ calls' = calls /\ inflight' = NoCall)
        /\ pc = "failed"
            => (pc' = "failed" /\ calls' = calls /\ inflight' = NoCall
                /\ result' = result) ]_vars

C7_Witness ==
    /\ args.cmd = "On"
    /\ pc = "failed"
    /\ result = "device error"
    /\ Ops(RunCalls) = <<"set_power", "set_brightness">>
    /\ dev.on = 1

(* C8: with an address that is no valid IPv4 address ("999.1.1.1", or      *)
(* "10.0.0"), whatever the command, the invocation fails with an input     *)
(* error and no contact with the device is ever made.                      *)
C8_InvalidAddressNoContact ==
    argv.ip_address \in {Address999, AddressShort} =>
      /\ calls = <<>>
      /\ inflight = NoCall
      /\ pc \in {"from_args", "ip_address", "failed"}
      /\ pc = "failed" => result \in {"usage error", "Invalid IP address format"}

C8_Witness ==
    /\ argv.ip_address = Address999
    /\ pc = "failed"
    /\ result = "Invalid IP address format"
    /\ calls = <<>>

(* C9: only deltas in -100..100 are parsed into the Brightness command and *)
(* reach its arithmetic.                                                   *)
C9_DeltaWithinRange ==
    args.cmd = "Brightness" => args.brightness \in DeltaLo..DeltaHi

(* C10 as stated: the token "-50" given directly as the delta parses to    *)
(* Brightness { brightness: -50 }.                                         *)
C10_MinusFiftyDirect ==
    (argv.cmd = "brightness" /\ argv.positional = <<MinusFifty>> /\ pc # "from_args")
    => args = Intent("Brightness", -50, 0)

(* C10 as amended: the token "-50" given after "--" parses to              *)
(* Brightness { brightness: -50 }; given directly it is read as a flag and *)
(* the invocation ends with a usage error before any device call.          *)
C10_MinusFiftyAfterDashDash ==
    (argv.cmd = "brightness" /\ pc # "from_args") =>
      /\ argv.positional = <<DashDash, MinusFifty>>
            => (args = Intent("Brightness", -50, 0) /\ result # "usage error")
      /\ argv.positional = <<MinusFifty>>
            => (pc = "failed" /\ result = "usage error" /\ args = NoArgs
                /\ calls = <<>>)

C10_Witness ==
    /\ argv.positional = <<DashDash, MinusFifty>>
    /\ args = Intent("Brightness", -50, 0)
    /\ pc = "done"

(* C11: Status issues one get and no write, and the invocation leaves the  *)
(* light as it found it: while no other actor has changed the light, it is *)
(* in the state it had when the process started.                           *)
C11_StatusOneReadNoWrite ==
    args.cmd = "Status" =>
      /\ IsPrefix(RunCalls, <<Call("get", 0)>>)
      /\ pc = "done" => (RunCalls = <<Call("get", 0)>> /\ status # NoStatus)
      /\ externals = 0 => dev = dev0

C11_Witness ==
    /\ args.cmd = "Status"
    /\ pc = "done"
    /\ RunCalls = <<Call("get", 0)>>
    /\ dev = dev0

(* C12: in the Brightness and Temperature arms, a set_brightness or        *)
(* set_temperature is issued only after the precondition read reported the *)
(* light on or after a set_power(true) that returned Ok; for a light that  *)
(* is off, Temperature issues get, set_power(true), set_temperature(t).    *)
C12_AdjustmentAfterPowerOn ==
    args.cmd \in {"Brightness", "Temperature"} =>
      /\ \A k \in 1..Len(RunCalls) :
            RunCalls[k].op \in {"set_brightness", "set_temperature"} =>
               \/ ensure_status.on = 1
               \/ \E j \in 1..(k - 1) : RunCalls[j] = Call("set_power", 1)
      /\ (args.cmd = "Temperature" /\ ensure_status.on = 0 /\ pc = "done") =>
            RunCalls = << Call("get", 0), Call("set_power", 1),
                          Call("set_temperature", args.temperature) >>

C12_Witness ==
    /\ args.cmd = "Temperature"
    /\ ensure_status.on = 0
    /\ pc = "done"
    /\ Ops(RunCalls) = <<"get", "set_power", "set_temperature">>

(* C13: Off issues set_power(false) and nothing else, no get and no other  *)
(* write, whatever the light's state; when the call succeeds it is the one *)
(* call of the invocation.                                                 *)
C13_OffOneCall ==
    args.cmd = "Off" =>
      /\ IsPrefix(RunCalls, <<Call("set_power", 0)>>)
      /\ ensure_status = NoStatus
      /\ pc = "done" => RunCalls = <<Call("set_power", 0)>>

C13_Witness ==
    /\ args.cmd = "Off"
    /\ pc = "done"
    /\ RunCalls = <<Call("set_power", 0)>>
    /\ dev0.on = 1

(* C14: a call is issued only when no call is awaited and no call has      *)
(* failed, so at most one call is outstanding and each follows the Ok of   *)
(* the one before; the writes that depend on a read (ensure_light_on's     *)
(* set_power, the Brightness arm's set_brightness) follow its reply.       *)
C14_OneCallAtATime ==
    [][ calls' # calls =>
          /\ inflight = NoCall
          /\ result = "none"
          /\ Len(calls') = Len(calls) + 1
          /\ inflight' = calls'[Len(calls')]
          /\ (args.cmd \in {"Brightness", "Temperature"} /\ inflight'.op = "set_power")
                => ensure_status # NoStatus
          /\ (args.cmd = "Brightness" /\ inflight'.op = "set_brightness")
                => status # NoStatus ]_vars

C14_Witness ==
    /\ args.cmd = "Brightness"
    /\ Ops(RunCalls) = <<"get", "set_power", "get", "set_brightness">>
    /\ inflight.op = "set_brightness"

(* C15: the Brightness arm's second get is issued once ensure_light_on has *)
(* returned (its set_power(true) included, for a light that was off); its  *)
(* reply is the light's state at that moment, and new_brightness is        *)
(* computed from that reply, not from ensure_light_on's status.            *)
C15_UsesReadAfterEnsure ==
    [][ args.cmd = "Brightness" =>
          /\ (pc = "br_get" /\ calls' # calls) =>
                /\ inflight = NoCall
                /\ ensure_status # NoStatus
                /\ RunCalls = IF ensure_status.on = 0
                              THEN <<Call("get", 0), Call("set_power", 1)>>
                              ELSE <<Call("get", 0)>>
          /\ (pc = "br_get" /\ pc' = "br_compute") => status' = dev
          /\ (pc = "br_compute" /\ pc' = "br_set") =>
                new_brightness' = NewBrightness(status.brightness, args.brightness) ]_vars

C15_Witness ==
    /\ args.cmd = "Brightness"
    /\ pc = "br_set"
    /\ status.brightness # ensure_status.brightness
    /\ new_brightness = NewBrightness(status.brightness, args.brightness)
    /\ new_brightness # NewBrightness(ensure_status.brightness, args.brightness)

(* C16: a change another actor makes between a read and the write after   *)
(* it is not detected. The Brightness and Temperature arms never read      *)
(* again or repeat a call, fail only on an error a call returned, decide   *)
(* on set_power from the precondition read alone, and issue the write      *)
(* computed from the status they read, whatever the light's state has      *)
(* become by then.                                                         *)
C16_RaceNotDetected ==
    args.cmd \in {"Brightness", "Temperature"} =>
      /\ Issued(Call("get", 0)) <= (IF args.cmd = "Brightness" THEN 2 ELSE 1)
      /\ \A k, j \in 1..Len(RunCalls) :
            (IsWrite(RunCalls[k]) /\ RunCalls[k].op = RunCalls[j].op) => k = j
      /\ pc = "failed" => result \in {"Invalid IP address format", "device error"}
      /\ ensure_status.on = 1 => Issued(Call("set_power", 1)) = 0
      /\ inflight.op = "set_brightness"
            => inflight.arg = NewBrightness(status.brightness, args.brightness)
      /\ inflight.op = "set_temperature" => inflight.arg = args.temperature
      /\ pc = "done" =>
            RunCalls[Len(RunCalls)].op \in {"set_brightness", "set_temperature"}

C16_Witness ==
    /\ args.cmd = "Brightness"
    /\ externals = 1
    /\ inflight.op = "set_brightness"
    /\ dev.brightness # status.brightness
    /\ inflight.arg # NewBrightness(dev.brightness, args.brightness)

\* The other race of C16: the light was switched off after the precondition
\* read reported it on, and the adjustment was written all the same.
C16_WitnessSwitchedOff ==
    /\ args.cmd = "Temperature"
    /\ externals = 1
    /\ ensure_status.on = 1
    /\ dev.on = 0
    /\ pc = "done"

(* C17: with no change by another actor and every call succeeding, the     *)
(* light is on when the Brightness or Temperature arm issues its           *)
(* adjustment, and once the invocation is done the light is on with        *)
(* brightness clamp(c + d, 0, 100), c its brightness at the start, or with *)
(* temperature t. The deltas are those the help text names, -100..100.     *)
C17_AdjustmentLands ==
    (externals = 0 /\ args.cmd \in {"Brightness", "Temperature"}) =>
      /\ inflight.op \in {"set_brightness", "set_temperature"} => dev.on = 1
      /\ (pc = "done" /\ args.cmd = "Brightness"
            /\ args.brightness \in DeltaLo..DeltaHi) =>
            /\ dev.on = 1
            /\ dev.brightness = Clamp(dev0.brightness + args.brightness, 0, 100)
      /\ (pc = "done" /\ args.cmd = "Temperature") =>
            /\ dev.on = 1
            /\ dev.temperature = args.temperature

(* C18: each command issues only the writes of its row: Brightness no      *)
(* set_temperature, Temperature no set_brightness, Off and Status neither, *)
(* and set_power(false) comes from Off alone; so, while no other actor has *)
(* changed the light, the fields outside the command's row are as they     *)
(* were when the process started.                                          *)
NeverIssued(op) == \A k \in 1..Len(calls) : calls[k].op # op

C18_WritesOnlyOwnFields ==
    /\ args.cmd = "Brightness" =>
          /\ NeverIssued("set_temperature")
          /\ externals = 0 => dev.temperature = dev0.temperature
    /\ args.cmd = "Temperature" =>
          /\ NeverIssued("set_brightness")
          /\ externals = 0 => dev.brightness = dev0.brightness
    /\ args.cmd \in {"Off", "Status"} =>
          /\ NeverIssued("set_brightness")
          /\ NeverIssued("set_temperature")
          /\ externals = 0 => /\ dev.brightness = dev0.brightness
                              /\ dev.temperature = dev0.temperature
    /\ args.cmd # "Off" =>
          /\ Issued(Call("set_power", 0)) = 0
          /\ externals = 0 => dev.on >= dev0.on

C18_Witness ==
    /\ args.cmd = "Temperature"
    /\ pc = "done"
    /\ externals = 0
    /\ dev.temperature # dev0.temperature
    /\ dev.brightness = dev0.brightness

(* C19: an invocation issues at most four calls in run and, once it has    *)
(* stopped, is in one of two states: Done, every call having succeeded, or *)
(* Failed with the first error met (a usage error, an invalid address, a   *)
(* call that returned Err).                                                *)
C19_EndsDoneOrFailed ==
    /\ Len(RunCalls) <= 4
    /\ pc \in Terminal =>
          /\ inflight = NoCall
          /\ \/ pc = "done" /\ result = "Ok"
             \/ /\ pc = "failed"
                /\ result \in {"usage error", "Invalid IP address format", "device error"}

====
